---------------------------- MODULE Spec2Model ----------------------------
(***************************************************************************)
(* docker-machine driver for Linode.  The repository holds two variants of  *)
(* the driver: the legacy one (src/linode.go, numeric API, job poller) and   *)
(* the API-v4 one (src/unnamed/part_000, linodego v4 client).  The variable  *)
(* variant selects which one a behaviour runs; the handle fields carry the   *)
(* legacy names (APIKey/LinodeId/LinodeLabel are APIToken/InstanceID/        *)
(* InstanceLabel in the v4 variant).                                         *)
(***************************************************************************)
EXTENDS Integers, Sequences, FiniteSets, TLC

\* ------------------------------------------------------------------ bounds
MaxInstanceId == 2      \* instance identifiers the remote API hands out: 1..MaxInstanceId
MaxJobId == 1           \* identifiers of the jobs Create starts: 1..MaxJobId
MaxAddrs == 2           \* longest candidate address list the remote API returns
MaxTimeOut == 4         \* largest timeOutSeconds of a stand-alone waitForJob call

\* ------------------------------------------------------- program constants
JobTimeOut == 60        \* waitForJob(jobId, ..., 60) in Create
RunningAttempts == 120  \* wait-for-running bound in Create

\* ------------------------------------------------------------------ values
Variants == {"legacy", "v4"}
InstanceIds == 1..MaxInstanceId
JobIds == 1..MaxJobId

Nil == <<>>                                  \* the nil error / no value
Err(kind, detail) == <<kind, detail>>        \* an error value
NoIP == <<>>                                 \* the empty string in d.IPAddress
NoCall == [api |-> "none", id |-> 0]         \* the step issued no remote call
Call(api, id) == [api |-> api, id |-> id]
NoResp == [kind |-> "none"]
Ret(err, val) == [err |-> err, val |-> val]

\* Candidate IPv4 addresses (octets); the pool touches every RFC1918 block
\* and both sides of the 172.16.0.0/12 boundary.
AddrPool ==
    { <<10, 1, 2, 3>>, <<172, 31, 0, 9>>, <<172, 32, 0, 9>>,
      <<192, 168, 1, 1>>, <<45, 33, 1, 2>> }

AddrLists == UNION { [1..n -> AddrPool] : n \in 0..MaxAddrs }

\* privateIP: membership in 10.0.0.0/8, 172.16.0.0/12 or 192.168.0.0/16
privateIP(ip) ==
    \/ ip[1] = 10
    \/ ip[1] = 172 /\ ip[2] \div 16 = 1
    \/ ip[1] = 192 /\ ip[2] = 168

\* the first candidate that is not private, NoIP when there is none
RECURSIVE FirstPublic(_)
FirstPublic(list) ==
    IF list = <<>> THEN NoIP
    ELSE IF ~privateIP(Head(list)) THEN Head(list)
    ELSE FirstPublic(Tail(list))

\* v4 Create, lines 199-204: the range loop assigns the first address that
\* is not private and breaks; d.IPAddress keeps its value when none is found.
SelectAddressV4(cur, list) ==
    IF FirstPublic(list) = NoIP THEN cur ELSE FirstPublic(list)

\* legacy Create, lines 208-212: the range loop assigns every address whose
\* IsPublic flag is 1 and does not break, so the last one stays.
\* The remote API flags an address public exactly when it is not private.
IsPublic(ip) == IF privateIP(ip) THEN 0 ELSE 1

RECURSIVE SelectAddressLegacy(_, _)
SelectAddressLegacy(cur, list) ==
    IF list = <<>> THEN cur
    ELSE SelectAddressLegacy(
             IF IsPublic(Head(list)) = 1 THEN Head(list) ELSE cur, Tail(list))

\* ------------------------------------------------------------ GetState map
LegacyStatuses == -3..5
V4Statuses ==
    { "booting", "running", "offline", "shutting_down", "rebooting",
      "provisioning", "deleting", "migrating", "rebuilding", "cloning",
      "restoring", "resizing" }

GetStateLegacyNoSaved(status) ==
    IF status \in {-1, 0} THEN "Starting"
    ELSE IF status = 1 THEN "Running"
    ELSE IF status \in {-2, 2} THEN "Stopped"
    ELSE IF status = 3 THEN "Stopping"
    ELSE "None"

\* legacy GetState: the switch over linodes.Linodes[0].Status
GetStateLegacy(status) ==
    IF status \in {-1, 0} THEN "Starting"
    ELSE IF status = 1 THEN "Running"
    ELSE IF status \in {-2, 2, 4} THEN "Stopped"
    ELSE IF status = 3 THEN "Stopping"
    ELSE "None"

\* v4 GetState: the switch over linode.Status
GetStateV4(status) ==
    IF status = "running" THEN "Running"
    ELSE IF status \in {"offline", "rebuilding", "migrating"} THEN "Stopped"
    ELSE IF status \in {"shutting_down", "deleting"} THEN "Stopping"
    ELSE IF status \in {"provisioning", "rebooting", "booting", "cloning",
                        "restoring"} THEN "Starting"
    ELSE "None"

\* ------------------------------------------------------- SetConfigFromFlags
OptionNames ==
    { "linode-api-key", "linode-api-token", "linode-token",
      "linode-root-pass", "linode-label" }
OptionValues == {"", "set"}
DriverOptions == [OptionNames -> OptionValues]

NoOptions == [n \in OptionNames |-> ""]       \* no binding yet

\* GetCreateFlags: the names of the flags the driver registers with the host
GetCreateFlags(v) ==
    IF v = "legacy"
    THEN { "linode-api-key", "linode-root-pass", "linode-label",
           "linode-datacenter-id", "linode-plan-id", "linode-payment-term",
           "linode-ssh-port", "linode-distribution-id", "linode-kernel-id",
           "linode-docker-port" }
    ELSE { "linode-api-token", "linode-root-pass", "linode-label",
           "linode-region", "linode-type", "linode-ssh-port", "linode-image",
           "linode-kernel", "linode-docker-port", "linode-swap-size" }

\* the registered flag whose usage is the API credential
RegisteredCredential(v) ==
    IF v = "legacy" THEN "linode-api-key" ELSE "linode-api-token"

\* the flags of the README's docker-machine create line
ReadmeFlags == {"linode-token", "linode-root-pass"}

\* the option SetConfigFromFlags reads the credential from
CredentialOption(v) == IF v = "legacy" THEN "linode-api-key" ELSE "linode-token"

\* the option names SetConfigFromFlags passes to flags.String / flags.Int
ReadOptions(v) ==
    {CredentialOption(v), "linode-root-pass", "linode-label",
     "linode-ssh-port", "linode-docker-port"}
      \cup (IF v = "legacy"
            THEN { "linode-datacenter-id", "linode-plan-id",
                   "linode-payment-term", "linode-distribution-id",
                   "linode-kernel-id" }
            ELSE { "linode-region", "linode-type", "linode-image",
                   "linode-kernel", "linode-swap-size" })

validateKeyOnly(key, pass) ==
    IF key = "" THEN Err("config", "credential") ELSE Nil

\* the two checks that end SetConfigFromFlags
validate(key, pass) ==
    IF key = "" THEN Err("config", "credential")
    ELSE IF pass = "" THEN Err("config", "linode-root-pass")
    ELSE Nil

\* ------------------------------------------------------------------- state
VARIABLES
    variant,         \* which driver source runs
    pc,              \* "new", "rejected", "idle", a Create position, "waitJob", "done"
    APIKey, RootPassword, LinodeLabel, IPAddress, LinodeId,   \* Driver fields
    client,          \* d.client != nil
    jobId,           \* Create's / waitForJob's jobId
    timeOutSeconds,  \* waitForJob's timeOutSeconds
    now,             \* whole seconds since waitForJob started
    attempts,        \* polls made by the wait for the running state
    resp,            \* the response of the last remote call
    lastCall,        \* the remote call the last step issued, NoCall if none
    log,             \* the remote steps the current Create has issued
    lastOp,          \* the operation the last step belongs to
    result,          \* what the last finished operation returned
    allocId,         \* identifier of the instance the last allocation returned, 0 if none
    created,         \* some Create has returned success
    lastGetIP,       \* what GetIP returned last since the last Create, NoGetIP if none
    options          \* the DriverOptions the host passed to the last SetConfigFromFlags

handle == <<APIKey, RootPassword, LinodeLabel, IPAddress, LinodeId, client>>
locals == <<jobId, timeOutSeconds, now, attempts>>
vars == <<variant, pc, APIKey, RootPassword, LinodeLabel, IPAddress, LinodeId,
          client, jobId, timeOutSeconds, now, attempts, resp, lastCall, log,
          lastOp, result, allocId, created, lastGetIP, options>>

NoGetIP == [err |-> Err("none", "none"), val |-> Nil]
InProgress == Ret(Nil, Nil)   \* placeholder result while an operation runs

\* NewDriver: every field but the BaseDriver is zero
Init ==
    /\ variant \in Variants
    /\ pc = "new"
    /\ APIKey = "" /\ RootPassword = "" /\ LinodeLabel = ""
    /\ IPAddress = NoIP /\ LinodeId = 0 /\ client = FALSE
    /\ jobId = 0 /\ timeOutSeconds = 0 /\ now = 0 /\ attempts = 0
    /\ resp = NoResp /\ lastCall = NoCall /\ log = <<>>
    /\ lastOp = "NewDriver" /\ result = InProgress
    /\ allocId = 0 /\ created = FALSE /\ lastGetIP = NoGetIP
    /\ options = NoOptions

\* The host binds the configuration first and gives up on a handle whose
\* binding failed; it may bind again at any time between operations.
SetConfigFromFlags ==
    /\ pc \in {"new", "rejected", "idle"}
    /\ \E flags \in DriverOptions :
         /\ options' = flags
         /\ APIKey' = flags[CredentialOption(variant)]
         /\ RootPassword' = flags["linode-root-pass"]
         /\ LinodeLabel' = flags["linode-label"]
         /\ result' = Ret(validate(flags[CredentialOption(variant)],
                                   flags["linode-root-pass"]), Nil)
    /\ pc' = IF result'.err = Nil THEN "idle" ELSE "rejected"
    /\ lastOp' = "SetConfigFromFlags"
    /\ lastCall' = NoCall /\ resp' = NoResp
    /\ log' = <<>>
    /\ UNCHANGED <<variant, IPAddress, LinodeId, client, locals,
                   allocId, created, lastGetIP>>

GetIPResult(ip) ==
    IF ip = NoIP THEN Ret(Err("ip", "IP address is not set"), NoIP)
    ELSE Ret(Nil, ip)

GetIP ==
    /\ pc = "idle"
    /\ result' = GetIPResult(IPAddress)
    /\ lastGetIP' = result'
    /\ lastOp' = "GetIP"
    /\ lastCall' = NoCall /\ resp' = NoResp
    /\ log' = <<>>
    /\ UNCHANGED <<variant, options, pc, handle, locals, allocId, created>>

\* GetURL: GetIP, then tcp://ip:port
GetURL ==
    /\ pc = "idle"
    /\ result' = IF GetIPResult(IPAddress).err # Nil
                 THEN Ret(GetIPResult(IPAddress).err, Nil)
                 ELSE Ret(Nil, <<"tcp", IPAddress>>)
    /\ lastOp' = "GetURL"
    /\ lastCall' = NoCall /\ resp' = NoResp
    /\ log' = <<>>
    /\ UNCHANGED <<variant, options, pc, handle, locals, allocId, created, lastGetIP>>

\* ------------------------------------------------- single-call lifecycle verbs
RemoteErr == [kind |-> "err"]
RemoteOk == [kind |-> "ok"]
Panic == Err("panic", "index out of range")

\* a verb that is one remote call on d.LinodeId whose error it returns
Verb(op, api) ==
    /\ pc = "idle"
    /\ \E r \in {RemoteErr, RemoteOk} :
         /\ resp' = r
         /\ result' = Ret(IF r.kind = "err" THEN Err("remote", api) ELSE Nil, Nil)
    /\ client' = TRUE                               \* getClient
    /\ lastOp' = op
    /\ lastCall' = Call(api, LinodeId)
    /\ log' = <<>>
    /\ UNCHANGED <<variant, options, pc, APIKey, RootPassword, LinodeLabel, IPAddress,
                   LinodeId, locals, allocId, created, lastGetIP>>

Start == Verb("Start", "boot")

StopClearsIP ==
    /\ pc = "idle"
    /\ \E r \in {RemoteErr, RemoteOk} :
         /\ resp' = r
         /\ result' = Ret(IF r.kind = "err" THEN Err("remote", "shutdown") ELSE Nil, Nil)
         /\ IPAddress' = IF r.kind = "ok" THEN NoIP ELSE IPAddress
    /\ client' = TRUE
    /\ lastOp' = "Stop"
    /\ lastCall' = Call("shutdown", LinodeId)
    /\ log' = <<>>
    /\ UNCHANGED <<variant, options, pc, APIKey, RootPassword, LinodeLabel,
                   LinodeId, locals, allocId, created, lastGetIP>>

Stop == Verb("Stop", "shutdown")
Restart == Verb("Restart", "reboot")
Kill == Verb("Kill", "shutdown")
Remove == Verb("Remove", "delete")

\* the responses of the status query: Linode.List (legacy), GetInstance (v4)
StatusResponses(v) ==
    IF v = "legacy"
    THEN {RemoteErr, [kind |-> "empty"]}
             \cup { [kind |-> "status", status |-> s] : s \in LegacyStatuses }
    ELSE {RemoteErr} \cup { [kind |-> "status", status |-> s] : s \in V4Statuses }

\* what GetState returns for a response of the status query; the legacy
\* variant indexes Linodes[0] without a length check
GetStateResult(v, r) ==
    IF r.kind = "err" THEN Ret(Err("remote", "status"), "Error")
    ELSE IF r.kind = "empty" THEN Ret(Panic, "")
    ELSE IF v = "legacy" THEN Ret(Nil, GetStateLegacy(r.status))
    ELSE Ret(Nil, GetStateV4(r.status))

GetState ==
    /\ pc = "idle"
    /\ \E r \in StatusResponses(variant) :
         /\ resp' = r
         /\ result' = GetStateResult(variant, r)
    /\ pc' = IF result'.err = Panic THEN "crashed" ELSE "idle"
    /\ client' = TRUE
    /\ lastOp' = "GetState"
    /\ lastCall' = Call("status", LinodeId)
    /\ log' = <<>>
    /\ UNCHANGED <<variant, options, APIKey, RootPassword, LinodeLabel, IPAddress,
                   LinodeId, locals, allocId, created, lastGetIP>>

\* ------------------------------------------------------------------ Create
Logged(step) ==
    IF log # <<>> /\ log[Len(log)] = step THEN log ELSE Append(log, step)

\* one remote call of Create: the step is logged, the call and its response kept
CreateCall(step, api, id, r) ==
    /\ lastOp' = "Create"
    /\ log' = Logged(step)
    /\ lastCall' = Call(api, id)
    /\ resp' = r

NoLocals == jobId' = 0 /\ timeOutSeconds' = 0 /\ now' = 0 /\ attempts' = 0

\* Create returns err (nil: success); its locals are gone
CreateReturns(err) ==
    /\ pc' = "idle"
    /\ result' = Ret(err, Nil)
    /\ created' = (created \/ err = Nil)
    /\ NoLocals

\* an index out of range ends the driver process
Crashes ==
    /\ pc' = "crashed"
    /\ result' = Ret(Panic, Nil)
    /\ created' = created
    /\ NoLocals

\* Create goes on to the position next
CreateGoes(next) ==
    /\ pc' = next
    /\ result' = InProgress
    /\ created' = created
    /\ UNCHANGED locals

\* Create goes on to wait for the job jid
CreateWaits(wait, jid) ==
    /\ pc' = wait
    /\ result' = InProgress
    /\ created' = created
    /\ jobId' = jid /\ timeOutSeconds' = JobTimeOut /\ now' = 0
    /\ attempts' = attempts

\* Create up to the allocation: createSSHKey, then getClient
CreateBegin ==
    /\ pc = "idle"
    /\ lastOp' = "Create"
    /\ log' = <<>>
    /\ lastCall' = NoCall /\ resp' = NoResp
    /\ lastGetIP' = NoGetIP
    /\ \/ /\ CreateReturns(Err("ssh", "createSSHKey"))
          /\ client' = client
       \/ /\ CreateGoes("allocate")
          /\ client' = TRUE
    /\ UNCHANGED <<variant, options, APIKey, RootPassword, LinodeLabel, IPAddress,
                   LinodeId, allocId>>

AllocationResponses(v) ==
    IF v = "legacy"
    THEN {RemoteErr} \cup { [kind |-> "ok", id |-> i] : i \in InstanceIds }
    ELSE {RemoteErr}
           \cup { [kind |-> "ok", id |-> i, IPv4 |-> l] :
                    i \in InstanceIds, l \in AddrLists }

CreateAllocateStoresEarly ==
    /\ pc = "allocate" /\ variant = "legacy"
    /\ \E r \in AllocationResponses("legacy"), i \in InstanceIds :
         /\ CreateCall("allocate", "allocate", 0, r)
         /\ IF r.kind = "err"
            THEN /\ CreateReturns(Err("remote", "allocate"))
                 /\ LinodeId' = i /\ allocId' = allocId
            ELSE /\ CreateGoes(IF LinodeLabel # "" THEN "rename" ELSE "listAddresses")
                 /\ LinodeId' = r.id /\ allocId' = r.id
    /\ UNCHANGED <<variant, options, APIKey, RootPassword, LinodeLabel, IPAddress,
                   client, lastGetIP>>

\* legacy: client.Linode.Create, then d.LinodeId = the returned identifier
CreateAllocate ==
    /\ pc = "allocate" /\ variant = "legacy"
    /\ \E r \in AllocationResponses("legacy") :
         /\ CreateCall("allocate", "allocate", 0, r)
         /\ IF r.kind = "err"
            THEN /\ CreateReturns(Err("remote", "allocate"))
                 /\ LinodeId' = LinodeId /\ allocId' = allocId
            ELSE /\ CreateGoes(IF LinodeLabel # "" THEN "rename" ELSE "listAddresses")
                 /\ LinodeId' = r.id /\ allocId' = r.id
    /\ UNCHANGED <<variant, options, APIKey, RootPassword, LinodeLabel, IPAddress,
                   client, lastGetIP>>

\* legacy: client.Linode.Update with the label
CreateRename ==
    /\ pc = "rename"
    /\ \E r \in {RemoteErr, RemoteOk} :
         /\ CreateCall("rename", "update", LinodeId, r)
         /\ IF r.kind = "err" THEN CreateReturns(Err("remote", "update"))
            ELSE CreateGoes("listAddresses")
    /\ UNCHANGED <<variant, options, handle, allocId, lastGetIP>>

\* legacy: client.Ip.List, the selection loop and the empty-address check
CreateListAddresses ==
    /\ pc = "listAddresses"
    /\ \E r \in {RemoteErr} \cup { [kind |-> "ok", list |-> l] : l \in AddrLists } :
         /\ CreateCall("listAddresses", "iplist", LinodeId, r)
         /\ IF r.kind = "err"
            THEN /\ CreateReturns(Err("remote", "iplist"))
                 /\ IPAddress' = IPAddress
            ELSE /\ IPAddress' = SelectAddressLegacy(IPAddress, r.list)
                 /\ IF IPAddress' = NoIP
                    THEN CreateReturns(Err("noip", "Linode IP Address is not found."))
                    ELSE CreateGoes("createDisk")
    /\ UNCHANGED <<variant, options, APIKey, RootPassword, LinodeLabel, LinodeId, client,
                   allocId, lastGetIP>>

JobResponses == {RemoteErr} \cup { [kind |-> "ok", JobId |-> j] : j \in JobIds }

\* a call of Create that starts a remote job and then waits for it
CreateJob(at, api, wait) ==
    /\ pc = at
    /\ \E r \in JobResponses :
         /\ CreateCall(at, api, LinodeId, r)
         /\ IF r.kind = "err" THEN CreateReturns(Err("remote", api))
            ELSE CreateWaits(wait, r.JobId)
    /\ UNCHANGED <<variant, options, handle, allocId, lastGetIP>>

\* legacy: d.client.Disk.CreateFromDistribution, then waitForJob
CreateDisk == CreateJob("createDisk", "diskFromDistribution", "waitDisk")

CreateSwapNoWait ==
    /\ pc = "createSwap"
    /\ \E r \in JobResponses :
         /\ CreateCall("createSwap", "disk", LinodeId, r)
         /\ IF r.kind = "err" THEN CreateReturns(Err("remote", "disk"))
            ELSE CreateGoes("createConfig")
    /\ UNCHANGED <<variant, options, handle, allocId, lastGetIP>>

\* legacy: d.client.Disk.Create for the swap disk, then waitForJob
CreateSwap == CreateJob("createSwap", "disk", "waitSwap")

\* legacy: d.client.Config.Create
CreateConfig ==
    /\ pc = "createConfig"
    /\ \E r \in {RemoteErr, RemoteOk} :
         /\ CreateCall("createConfig", "config", LinodeId, r)
         /\ IF r.kind = "err" THEN CreateReturns(Err("remote", "config"))
            ELSE CreateGoes("boot")
    /\ UNCHANGED <<variant, options, handle, allocId, lastGetIP>>

\* legacy: d.client.Linode.Boot, then waitForJob
CreateBoot == CreateJob("boot", "boot", "waitBoot")

\* v4: client.CreateInstance, the selection loop over linode.IPv4 and the
\* empty-address check; d.InstanceID is not assigned anywhere in Create
CreateInstance ==
    /\ pc = "allocate" /\ variant = "v4"
    /\ \E r \in AllocationResponses("v4") :
         /\ CreateCall("allocate", "allocate", 0, r)
         /\ IF r.kind = "err"
            THEN /\ CreateReturns(Err("remote", "allocate"))
                 /\ IPAddress' = IPAddress /\ allocId' = allocId
            ELSE /\ allocId' = r.id
                 /\ IPAddress' = SelectAddressV4(IPAddress, r.IPv4)
                 /\ IF IPAddress' = NoIP
                    THEN CreateReturns(Err("noip", "Linode IP Address is not found"))
                    ELSE CreateGoes("waitRunning")
    /\ UNCHANGED <<variant, options, APIKey, RootPassword, LinodeLabel, LinodeId, client,
                   lastGetIP>>

\* --------------------------------------------------------------- waitForJob
WaitPositions == {"waitDisk", "waitSwap", "waitBoot", "waitJob"}

WaitNext(at) ==
    IF at = "waitDisk" THEN "createSwap"
    ELSE IF at = "waitSwap" THEN "createConfig"
    ELSE "waitRunning"

\* what Job.List answers: an error, no job, or one job (the one asked for or
\* another one) with its HostSuccess field
PollResponses ==
    {RemoteErr, [kind |-> "jobs", Jobs |-> <<>>]}
      \cup { [kind |-> "jobs", Jobs |-> << [JobId |-> j, HostSuccess |-> h] >>] :
               j \in 1..(MaxJobId + 1), h \in {"", "0", "1"} }

TimeoutFiresLate(T) == T + 2

\* time.After(time.Duration(timeOutSeconds) * time.Second): the second at
\* which the timeout channel becomes ready
TimeoutFiresAt(T) == T

\* The body of the tick case for the response r of Job.List: "continue" to
\* go round the loop again, otherwise the error waitForJob returns (Nil:
\* success).  len(Jobs) < 0 never holds, so an empty list reaches Jobs[0].
JobCheck(r, jid, name) ==
    IF r.kind = "err" THEN Err("remote", "job")
    ELSE IF Len(r.Jobs) < 0 THEN Err("notfound", name)
    ELSE IF Len(r.Jobs) = 0 THEN Panic
    ELSE IF r.Jobs[1].JobId # jid THEN Err("notfound", name)
    ELSE IF r.Jobs[1].HostSuccess = "1" THEN Nil
    ELSE Err("continue", name)

\* waitForJob returns err to its caller: Create, or the host of a
\* stand-alone call (which keeps the clock for inspection)
waitForJobReturns(err, at) ==
    IF pc = "waitJob"
    THEN /\ pc' = "done" /\ result' = Ret(err, Nil) /\ created' = created
         /\ now' = at /\ UNCHANGED <<jobId, timeOutSeconds, attempts>>
    ELSE IF err = Nil THEN /\ pc' = WaitNext(pc) /\ result' = InProgress
                           /\ created' = created /\ NoLocals
    ELSE IF err = Panic THEN Crashes
    ELSE CreateReturns(err)

\* case <-tick: the next tick arrives no later than the timeout fires; the
\* status query takes less than a tick.  The response is a local of the
\* iteration: it is gone when the loop goes round.
waitForJobTick ==
    /\ pc \in WaitPositions
    /\ now + 1 <= TimeoutFiresAt(timeOutSeconds)
    /\ client' = TRUE
    /\ lastOp' = IF pc = "waitJob" THEN "waitForJob" ELSE "Create"
    /\ log' = IF pc = "waitJob" THEN log ELSE Logged(pc)
    /\ lastCall' = Call("job", LinodeId)
    /\ \E r \in PollResponses :
         IF JobCheck(r, jobId, pc) = Err("continue", pc)
         THEN /\ pc' = pc /\ result' = InProgress /\ created' = created
              /\ resp' = NoResp
              /\ now' = now + 1 /\ UNCHANGED <<jobId, timeOutSeconds, attempts>>
         ELSE /\ resp' = r
              /\ waitForJobReturns(JobCheck(r, jobId, pc), now + 1)
    /\ UNCHANGED <<variant, options, APIKey, RootPassword, LinodeLabel, IPAddress,
                   LinodeId, allocId, lastGetIP>>

\* case <-timeout: the timeout is ready, or fires before (or together with)
\* the next tick; select takes either of two ready cases
waitForJobTimeout ==
    /\ pc \in WaitPositions
    /\ now + 1 >= TimeoutFiresAt(timeOutSeconds)
    /\ lastOp' = IF pc = "waitJob" THEN "waitForJob" ELSE "Create"
    /\ lastCall' = NoCall
    /\ waitForJobReturns(Err("timeout", pc),
                         IF now >= TimeoutFiresAt(timeOutSeconds) THEN now
                         ELSE TimeoutFiresAt(timeOutSeconds))
    /\ UNCHANGED <<variant, options, handle, resp, log, allocId, lastGetIP>>

\* ------------------------------------------------- the wait for "running"
\* legacy: mcnutils.WaitForSpecific(drivers.MachineInState(d, state.Running),
\* 120, 3s): up to 120 GetState calls, an error of GetState counts as "not
\* yet"; v4: linodego.WaitForInstanceStatus(client, d.InstanceID, running,
\* 120): polls GetInstance and returns its error at once.
WaitRunning ==
    /\ pc = "waitRunning"
    /\ attempts < RunningAttempts
    /\ lastOp' = "Create"
    /\ log' = Logged("waitRunning")
    /\ lastCall' = Call("status", LinodeId)
    /\ \E r \in StatusResponses(variant) :
         IF GetStateResult(variant, r).err = Panic
         THEN resp' = r /\ Crashes
         ELSE IF GetStateResult(variant, r).val = "Running"
         THEN resp' = r /\ CreateReturns(Nil)
         ELSE IF variant = "v4" /\ r.kind = "err"
         THEN resp' = r /\ CreateReturns(Err("waitRunning", "remote"))
         ELSE IF attempts + 1 = RunningAttempts
         THEN resp' = r /\ CreateReturns(Err("waitRunning", "timeout"))
         ELSE /\ resp' = NoResp
              /\ pc' = pc /\ result' = InProgress /\ created' = created
              /\ attempts' = attempts + 1
              /\ UNCHANGED <<jobId, timeOutSeconds, now>>
    /\ UNCHANGED <<variant, options, handle, allocId, lastGetIP>>

Next ==
    \/ SetConfigFromFlags \/ GetIP \/ GetURL
    \/ Start \/ Stop \/ Restart \/ Kill \/ Remove \/ GetState
    \/ CreateBegin \/ CreateAllocate \/ CreateRename \/ CreateListAddresses
    \/ CreateDisk \/ CreateSwap \/ CreateConfig \/ CreateBoot
    \/ CreateInstance \/ waitForJobTick \/ waitForJobTimeout \/ WaitRunning

Spec == Init /\ [][Next]_vars

\* ------------------------------------------- waitForJob called on its own
InitPoller ==
    /\ variant = "legacy"
    /\ pc = "waitJob"
    /\ APIKey = "set" /\ RootPassword = "set" /\ LinodeLabel = ""
    /\ IPAddress = NoIP /\ LinodeId \in 0..MaxInstanceId /\ client = FALSE
    /\ jobId \in JobIds /\ timeOutSeconds \in 0..MaxTimeOut
    /\ now = 0 /\ attempts = 0
    /\ resp = NoResp /\ lastCall = NoCall /\ log = <<>>
    /\ lastOp = "waitForJob" /\ result = InProgress
    /\ allocId = LinodeId /\ created = FALSE /\ lastGetIP = NoGetIP
    /\ options = NoOptions

NextPoller == waitForJobTick \/ waitForJobTimeout

SpecPoller == InitPoller /\ [][NextPoller]_vars

\* the Go runtime delivers ticks and the timeout, and select takes a ready case
SpecPollerFair == SpecPoller /\ WF_vars(NextPoller)

\* ================================================================== claims
IsPrefix(s, t) == Len(s) <= Len(t) /\ SubSeq(t, 1, Len(s)) = s

\* the order the remote steps of Create are claimed to follow
ClaimedOrder ==
    <<"allocate">> \o (IF LinodeLabel # "" THEN <<"rename">> ELSE <<>>)
    \o <<"listAddresses", "createDisk", "waitDisk", "createSwap", "waitSwap",
         "createConfig", "boot", "waitBoot", "waitRunning">>

\* the steps of the claimed order a variant of the driver has
InVariant(step) == variant = "legacy" \/ step \in {"allocate", "waitRunning"}

\* the failures a step can end with
StepFailures(step) ==
    IF step = "allocate"
    THEN {Err("remote", "allocate")}
           \cup (IF variant = "v4"
                 THEN {Err("noip", "Linode IP Address is not found")} ELSE {})
    ELSE IF step = "rename" THEN {Err("remote", "update")}
    ELSE IF step = "listAddresses"
    THEN {Err("remote", "iplist"), Err("noip", "Linode IP Address is not found.")}
    ELSE IF step = "createDisk" THEN {Err("remote", "diskFromDistribution")}
    ELSE IF step = "createSwap" THEN {Err("remote", "disk")}
    ELSE IF step = "createConfig" THEN {Err("remote", "config")}
    ELSE IF step = "boot" THEN {Err("remote", "boot")}
    ELSE IF step = "waitRunning"
    THEN {Err("waitRunning", "remote"), Err("waitRunning", "timeout")}
    ELSE {Err("remote", "job"), Err("notfound", step), Err("timeout", step)}

Selected ==
    /\ lastOp = "Create" /\ resp.kind = "ok"
    /\ \/ variant = "legacy" /\ lastCall.api = "iplist"
       \/ variant = "v4" /\ lastCall.api = "allocate"
Candidates == IF variant = "legacy" THEN resp.list ELSE resp.IPv4

\* C2: after the address selection of a Create the handle holds the first
\* candidate outside 10.0.0.0/8, 172.16.0.0/12 and 192.168.0.0/16, and when
\* there is none Create has failed with the no-address-found error.
C2_FirstPublicAddress ==
    Selected =>
       IF FirstPublic(Candidates) = NoIP
       THEN pc = "idle" /\ result.err # Nil /\ result.err[1] = "noip"
       ELSE pc # "idle" /\ IPAddress = FirstPublic(Candidates)

\* the response of the last status query reports success of the awaited job
ReportsSuccess ==
    /\ resp.kind = "jobs" /\ Len(resp.Jobs) > 0
    /\ resp.Jobs[1].JobId = jobId /\ resp.Jobs[1].HostSuccess = "1"

C3_Safety ==
    /\ pc = "waitJob" => resp = NoResp /\ now <= timeOutSeconds
    /\ pc = "done" =>
         /\ result.err = Nil <=> (resp # NoResp /\ ReportsSuccess)
         /\ result.err = Nil => now <= timeOutSeconds
         /\ resp = NoResp =>
              /\ result.err = Err("timeout", "waitJob")
              /\ now <= timeOutSeconds + 1 /\ now >= timeOutSeconds - 1

\* C3: waitForJob with timeout T polls once a second; it returns success at
\* the tick (at most T) at which the status query reports the job's success;
\* when every query reports the job unfinished it returns the timeout
\* failure between T - 1 and T + 1 seconds after it started; and it always
\* returns.
C3_PollerTerminates == [] C3_Safety /\ <>(pc \in {"done", "crashed"})

\* a wait of at least two seconds that polled (the client exists) and then
\* timed out
C3_Witness ==
    /\ pc = "done" /\ result.err = Err("timeout", "waitJob")
    /\ timeOutSeconds >= 2 /\ now = timeOutSeconds /\ client

\* C4: SetConfigFromFlags returns an error exactly when the credential or
\* the root password it read is empty, and it issues no remote call and
\* constructs no client.
C4_ConfigValidation ==
    [][lastOp' = "SetConfigFromFlags" =>
          /\ client' = client
          /\ lastCall' = NoCall
          /\ (APIKey' = "" \/ RootPassword' = "") <=> result'.err # Nil
          /\ (result'.err # Nil) <=> pc' = "rejected"]_vars

\* a binding without root password that failed on a handle whose client
\* other operations had constructed
C4_Witness ==
    /\ lastOp = "SetConfigFromFlags" /\ result.err # Nil
    /\ APIKey = "set" /\ RootPassword = "" /\ client

\* C5: GetState maps every status the remote API returns to exactly one of
\* starting, running, stopping, stopped, none with no error (legacy codes:
\* -1, 0 starting; 1 running; -2, 2, 4 stopped; 3 stopping; others none) and
\* yields the error state with an error exactly when the status query fails.
C5_GetStateTotal ==
    lastOp = "GetState" =>
       /\ resp.kind = "err" <=> result.val = "Error"
       /\ resp.kind = "err" => result.err = Err("remote", "status")
       /\ resp.kind = "status" =>
            /\ result.err = Nil
            /\ result.val \in {"Starting", "Running", "Stopping", "Stopped", "None"}
            /\ variant = "legacy" =>
                 /\ resp.status \in {-1, 0} <=> result.val = "Starting"
                 /\ resp.status = 1 <=> result.val = "Running"
                 /\ resp.status \in {-2, 2, 4} <=> result.val = "Stopped"
                 /\ resp.status = 3 <=> result.val = "Stopping"
            /\ variant = "v4" =>
                 (resp.status = "running" <=> result.val = "Running")

\* the legacy status 4, saved to disk, read as stopped
C5_Witness ==
    /\ lastOp = "GetState" /\ variant = "legacy"
    /\ resp.kind = "status" /\ resp.status = 4 /\ result.val = "Stopped"

\* C6: GetState maps the statuses migrating, cloning and restoring to none.
C6_TransitionalIsNone ==
    (lastOp = "GetState" /\ variant = "v4" /\ resp.kind = "status"
       /\ resp.status \in {"migrating", "cloning", "restoring"})
    => result.val = "None"

\* C7: GetIP issues no remote call and leaves the handle as it is, and it
\* returns what the previous GetIP returned when no Create came in between.
C7_GetIPIdempotent ==
    [][lastOp' = "GetIP" =>
          /\ UNCHANGED handle
          /\ lastCall' = NoCall
          /\ lastGetIP # NoGetIP => result' = lastGetIP]_vars

\* GetIP returned the address a Create cached, remote verbs having run
C7_Witness ==
    /\ lastOp = "GetIP" /\ result.err = Nil /\ result.val = IPAddress
    /\ IPAddress # NoIP /\ created

\* C8 as stated: the identifier is zero as long as no Create has succeeded.
C8_NoIdBeforeSuccess == ~created => LinodeId = 0

\* C8, amended: the identifier is zero as long as no allocation call of
\* Create has returned an instance; the legacy Create stores the identifier
\* of the allocated instance at once, whatever happens to its later steps.
C8_NoIdBeforeAllocation ==
    /\ allocId = 0 => LinodeId = 0
    /\ variant = "legacy" => LinodeId = allocId

\* a Create that failed at the allocation and left the identifier unset
C8_Witness ==
    /\ lastOp = "Create" /\ pc = "idle"
    /\ result.err = Err("remote", "allocate") /\ allocId = 0 /\ LinodeId = 0

\* C9: when the status query of waitForJob succeeds with no job, or with a
\* job other than the awaited one, waitForJob returns the not-found failure.
C9_MissingJobNotFound ==
    (pc \in {"done", "crashed"} /\ resp.kind = "jobs"
       /\ (Len(resp.Jobs) = 0 \/ resp.Jobs[1].JobId # jobId))
    => pc = "done" /\ result.err = Err("notfound", "waitJob")

\* C10: once the allocation of a Create has returned an instance, every
\* remote call of that Create, and of the verbs after a successful Create,
\* is addressed to that instance, and a successful Create leaves its
\* identifier in the handle.
C10_CallsAddressAllocated ==
    /\ (allocId # 0 /\ lastCall.api \notin {"none", "allocate"}
          /\ (lastOp = "Create" \/ created)) => lastCall.id = allocId
    /\ (lastOp = "Create" /\ pc = "idle" /\ result.err = Nil) => LinodeId = allocId

\* C11: every option name SetConfigFromFlags reads is a flag GetCreateFlags
\* registers (and so are the flags of the README's create line), and a
\* binding whose options give non-empty values to the registered credential
\* flag and the registered root-password flag succeeds with that credential
\* stored in the handle.
C11_ReadFlagsRegistered ==
    lastOp = "SetConfigFromFlags" =>
       /\ ReadOptions(variant) \subseteq GetCreateFlags(variant)
       /\ variant = "v4" => ReadmeFlags \subseteq GetCreateFlags(variant)
       /\ (options[RegisteredCredential(variant)] # ""
             /\ options["linode-root-pass"] # "") =>
             /\ result.err = Nil
             /\ APIKey = options[RegisteredCredential(variant)]
=============================================================================
